---------------------------- MODULE Spec2Model ----------------------------
(***************************************************************************)
(* NotionSync (src/notion_sync.py): a watchdog handler that turns every    *)
(* newly created Markdown file of a watched directory into a Notion page   *)
(* and then moves the file into <parent>/archived/.                        *)
(*                                                                         *)
(* Text is a sequence of one-character strings, so that split, strip,      *)
(* startswith, slicing and truncation are computed and not assumed.        *)
(*                                                                         *)
(* Four specifications:                                                    *)
(*   ConvSpec  the block converter (markdown_to_blocks and                 *)
(*             create_paragraph_block) run on one input text;              *)
(*   Spec      the event handler (on_created, process_markdown) run by the *)
(*             observer thread on the creation events of the file system,  *)
(*             two directories being watched;                              *)
(*   MainSpec  main() from the loaded targets on: validation, scheduling,  *)
(*             the observer thread and its handler, interrupt, join, exit; *)
(*   FairSpec  the handler on one watched directory, with weak fairness of *)
(*             the observer thread's steps and of the remote answer.       *)
(***************************************************************************)
EXTENDS Integers, Sequences, FiniteSets, TLC

VARIABLES
    \* ---- block converter (ConvSpec) ----
    content,            \* the argument of the call
    cv_pc,              \* "call" | "loop" | "returned" | "paragraph" | "off"
    lines,              \* content.split('\n')
    line_no,            \* position of the for loop in lines (1-based)
    current_paragraph,  \* the paragraph buffer: a sequence of lines
    blocks,             \* the blocks appended so far; the result once returned
    paragraph_block,    \* result of a direct create_paragraph_block(content)
    \* ---- event handler (Spec) ----
    fs,                 \* the file system: path -> node, defined on the existing paths
    dir_note_map,       \* MarkdownHandler.dir_note_map: directory -> note_id or None
    events,             \* every creation event raised so far (an event's id is its index)
    queue,              \* ids of the events the observer thread has not dispatched yet
    pc,                 \* where the observer thread is in on_created / process_markdown
    cur,                \* the locals of the on_created call in progress (or of the last one)
    requests,           \* the arguments of every notion.pages.create call, in order
    pages,              \* the pages the remote store has created
    log,                \* the handler's operations on files and on the remote store, in order
    \* ---- main() and the observer (MainSpec) ----
    sync_targets,       \* what load_sync_targets() returned: a sequence of targets
    dirs,               \* the state of every directory a target names
    main,               \* the main thread: its position, the locals of main(), the exit status
    watches,            \* the directories scheduled on the observer
    observer            \* the observer thread: "new" | "running" | "stopping" | "stopped"

convVars == <<content, cv_pc, lines, line_no, current_paragraph, blocks, paragraph_block>>
pipeVars == <<fs, dir_note_map, events, queue, pc, cur, requests, pages, log>>
mainVars == <<sync_targets, dirs, main, watches, observer>>
vars == <<convVars, pipeVars, mainVars>>

---------------------------------------------------------------------------
(* Bounds of the model *)

\* longest enumerated input text of the converter
MaxLen == 5
\* long texts have RichTextLimit - LongSlack .. RichTextLimit + LongSlack filler characters
LongSlack == 2
\* creation events raised in one run
MaxEvents == 2

(* Program constants *)

\* len(text) > 2000
RichTextLimit == 2000
\* text[:1997] + "..."
TruncateKeep == 1997

---------------------------------------------------------------------------
(* Text helpers: Python's str methods on sequences of characters *)

Chars(s) == {s[i] : i \in 1..Len(s)}

Rep(c, n) == [i \in 1..n |-> c]

NoTabWhitespace(c) == c \in {" ", "\n", "\r", "\f"}

\* the (ASCII) characters str.strip() and str.rstrip() remove when called without argument
IsWhitespace(c) == c \in {" ", "\t", "\n", "\r", "\f"}

RECURSIVE rstrip_len(_, _)
rstrip_len(s, n) ==
    IF n = 0 \/ ~IsWhitespace(s[n]) THEN n ELSE rstrip_len(s, n - 1)

\* line.rstrip()
rstrip(s) == SubSeq(s, 1, rstrip_len(s, Len(s)))

RECURSIVE lstrip_from(_, _)
lstrip_from(s, i) ==
    IF i > Len(s) \/ ~IsWhitespace(s[i]) THEN i ELSE lstrip_from(s, i + 1)

\* content.strip()
strip(s) == rstrip(SubSeq(s, lstrip_from(s, 1), Len(s)))

\* content.split('\n')
RECURSIVE split(_)
split(s) ==
    LET nl == {i \in 1..Len(s) : s[i] = "\n"}
    IN  IF nl = {} THEN <<s>>
        ELSE LET i == CHOOSE k \in nl : \A j \in nl : k <= j
             IN  <<SubSeq(s, 1, i - 1)>> \o split(SubSeq(s, i + 1, Len(s)))

\* '\n'.join(current_paragraph)
RECURSIVE join(_)
join(ls) ==
    IF ls = <<>> THEN <<>>
    ELSE IF Len(ls) = 1 THEN ls[1]
    ELSE ls[1] \o <<"\n">> \o join(Tail(ls))

\* line.startswith(prefix)
startswith(s, prefix) ==
    Len(s) >= Len(prefix) /\ SubSeq(s, 1, Len(prefix)) = prefix

\* line[n:]
slice_from(s, n) == SubSeq(s, n + 1, Len(s))

---------------------------------------------------------------------------
(* Blocks *)

\* {"object": "block", "type": t, t: {"rich_text": [{"type": "text", "text": {"content": text}}]}}
Block(t, text) == [object |-> "block", type |-> t, text |-> text]

create_paragraph_block_cut_at_limit(text) ==
    Block("paragraph",
          IF Len(text) >= RichTextLimit
          THEN SubSeq(text, 1, TruncateKeep) \o <<".", ".", ".">>
          ELSE text)

create_paragraph_block(text) ==
    Block("paragraph",
          IF Len(text) > RichTextLimit
          THEN SubSeq(text, 1, TruncateKeep) \o <<".", ".", ".">>
          ELSE text)

\* if current_paragraph: blocks.append(create_paragraph_block('\n'.join(...))); current_paragraph = []
flush(st) ==
    IF st.current_paragraph # <<>>
    THEN [blocks |-> Append(st.blocks, create_paragraph_block(join(st.current_paragraph))),
          current_paragraph |-> <<>>]
    ELSE st

heading(st, t, text) ==
    [flush(st) EXCEPT !.blocks = Append(@, Block(t, text))]

loop_body_heading_before_flush(st, raw) ==
    LET line == rstrip(raw)
        late(t, text) ==
            [blocks |-> flush([st EXCEPT !.blocks = Append(@, Block(t, text))]).blocks,
             current_paragraph |-> <<>>]
    IN  IF startswith(line, <<"#", " ">>) THEN late("heading_1", slice_from(line, 2))
        ELSE IF startswith(line, <<"#", "#", " ">>) THEN late("heading_2", slice_from(line, 3))
        ELSE IF startswith(line, <<"#", "#", "#", " ">>) THEN late("heading_3", slice_from(line, 4))
        ELSE IF line = <<>> THEN flush(st)
        ELSE [st EXCEPT !.current_paragraph = Append(@, line)]

loop_body_any_hashes(st, raw) ==
    LET line == rstrip(raw)
        h == CHOOSE n \in 0..Len(line) :
                 /\ \A i \in 1..n : line[i] = "#"
                 /\ (n < Len(line) => line[n + 1] # "#")
    IN  IF h >= 1 /\ h < Len(line) /\ line[h + 1] = " "
        THEN heading(st, IF h = 1 THEN "heading_1" ELSE IF h = 2 THEN "heading_2" ELSE "heading_3",
                     slice_from(line, h + 1))
        ELSE IF line = <<>> THEN flush(st)
        ELSE [st EXCEPT !.current_paragraph = Append(@, line)]

\* the body of `for line in lines`
loop_body(st, raw) ==
    LET line == rstrip(raw)
    IN  IF startswith(line, <<"#", " ">>) THEN heading(st, "heading_1", slice_from(line, 2))
        ELSE IF startswith(line, <<"#", "#", " ">>) THEN heading(st, "heading_2", slice_from(line, 3))
        ELSE IF startswith(line, <<"#", "#", "#", " ">>) THEN heading(st, "heading_3", slice_from(line, 4))
        ELSE IF line = <<>> THEN flush(st)
        ELSE [st EXCEPT !.current_paragraph = Append(@, line)]

RECURSIVE scan(_, _, _)
scan(st, ls, i) ==
    IF i > Len(ls) THEN st ELSE scan(loop_body(st, ls[i]), ls, i + 1)

\* markdown_to_blocks as one function, for its caller process_markdown
markdown_to_blocks(c) ==
    IF strip(c) = <<>> THEN <<>>
    ELSE flush(scan([blocks |-> <<>>, current_paragraph |-> <<>>], split(c), 1)).blocks

---------------------------------------------------------------------------
(* ConvSpec: one call of markdown_to_blocks (or of create_paragraph_block) *)

Alphabet == {"#", " ", "\n", "\t", "a"}

ShortTexts == UNION {[1..n -> Alphabet] : n \in 0..MaxLen}

LongTexts ==
    {prefix \o Rep("a", n) \o tail :
        prefix \in {<<>>, <<"#", " ">>, <<"#", "#", " ">>, <<"#", "#", "#", " ">>,
                    <<"#", "#", "#", "#", " ">>},
        n \in (RichTextLimit - LongSlack)..(RichTextLimit + LongSlack),
        tail \in {<<>>, <<"\n", "a">>, <<"\n", "\n", "a">>}}

\* "# T\n\nBody\n\n## S"
ExampleText ==
    <<"#", " ", "T", "\n", "\n", "B", "o", "d", "y", "\n", "\n", "#", "#", " ", "S">>

ExampleTexts ==
    {ExampleText,
     <<"#", "#", "#", "#", " ", "a">>,
     <<"#", " ", "a", "\n", "#", "#", "#", "#", " ", "a">>,
     <<"a", "\n", "#", "#", "#", " ", "a", " ", "\n", "a", "\t", "\n", "a">>}

Texts == ShortTexts \cup LongTexts \cup ExampleTexts

PipeOff ==
    /\ fs = <<>> /\ dir_note_map = <<>> /\ events = <<>> /\ queue = <<>> /\ pc = "off"
    /\ cur = <<>> /\ requests = <<>> /\ pages = <<>> /\ log = <<>>
    /\ sync_targets = <<>> /\ dirs = <<>> /\ main = <<>> /\ watches = {}
    /\ observer = "off"

ConvInit ==
    /\ content \in Texts
    /\ cv_pc = "call"
    /\ lines = <<>>
    /\ line_no = 0
    /\ current_paragraph = <<>>
    /\ blocks = <<>>
    /\ paragraph_block = <<>>
    /\ PipeOff

\* if not content.strip(): return []
ReturnEmpty ==
    /\ cv_pc = "call"
    /\ strip(content) = <<>>
    /\ cv_pc' = "returned"
    /\ blocks' = <<>>
    /\ UNCHANGED <<content, lines, line_no, current_paragraph, paragraph_block, pipeVars, mainVars>>

\* blocks = []; lines = content.split('\n'); current_paragraph = []
SplitLines ==
    /\ cv_pc = "call"
    /\ strip(content) # <<>>
    /\ cv_pc' = "loop"
    /\ lines' = split(content)
    /\ line_no' = 1
    /\ blocks' = <<>>
    /\ current_paragraph' = <<>>
    /\ UNCHANGED <<content, paragraph_block, pipeVars, mainVars>>

\* one iteration of `for line in lines`
ScanLine ==
    /\ cv_pc = "loop"
    /\ line_no <= Len(lines)
    /\ LET st == loop_body([blocks |-> blocks, current_paragraph |-> current_paragraph],
                           lines[line_no])
       IN  /\ blocks' = st.blocks
           /\ current_paragraph' = st.current_paragraph
    /\ line_no' = line_no + 1
    /\ UNCHANGED <<content, cv_pc, lines, paragraph_block, pipeVars, mainVars>>

\* after the loop: the last paragraph, then return blocks
ReturnBlocks ==
    /\ cv_pc = "loop"
    /\ line_no > Len(lines)
    /\ LET st == flush([blocks |-> blocks, current_paragraph |-> current_paragraph])
       IN  /\ blocks' = st.blocks
           /\ current_paragraph' = st.current_paragraph
    /\ cv_pc' = "returned"
    /\ UNCHANGED <<content, lines, line_no, paragraph_block, pipeVars, mainVars>>

\* handler.create_paragraph_block(content), called directly
CallCreateParagraphBlock ==
    /\ cv_pc = "call"
    /\ cv_pc' = "paragraph"
    /\ paragraph_block' = create_paragraph_block(content)
    /\ UNCHANGED <<content, lines, line_no, current_paragraph, blocks, pipeVars, mainVars>>

ConvNext ==
    \/ ReturnEmpty
    \/ SplitLines
    \/ ScanLine
    \/ ReturnBlocks
    \/ CallCreateParagraphBlock

ConvSpec == ConvInit /\ [][ConvNext]_vars

\* the loop and the function compute the same blocks
ConvAgree == cv_pc = "returned" => blocks = markdown_to_blocks(content)

---------------------------------------------------------------------------
(* Paths and names: pathlib on sequences of characters *)

None == "None"

\* os.environ.get("NOTION_DATABASE_ID")
DATABASE_ID == "database_id"

\* str.lower() on the characters file names are made of
lower_char(c) == IF c = "M" THEN "m" ELSE IF c = "D" THEN "d" ELSE c

lower(s) == [i \in 1..Len(s) |-> lower_char(s[i])]

\* name.rfind('.') + 1: the position of the last dot, 0 when there is none
rfind_dot(name) ==
    LET dots == {i \in 1..Len(name) : name[i] = "."}
    IN  IF dots = {} THEN 0 ELSE CHOOSE i \in dots : \A j \in dots : j <= i

\* PurePath.suffix: from the last dot, unless that dot opens or ends the name
suffix(name) ==
    LET i == rfind_dot(name)
    IN  IF 1 < i /\ i < Len(name) THEN SubSeq(name, i, Len(name)) ELSE <<>>

\* PurePath.stem
stem(name) ==
    LET i == rfind_dot(name)
    IN  IF 1 < i /\ i < Len(name) THEN SubSeq(name, 1, i - 1) ELSE name

\* str(Path(s)): pathlib drops the slashes that end a path (the root keeps its one)
RECURSIVE str_path(_)
str_path(s) ==
    IF Len(s) > 1 /\ s[Len(s)] = "/" THEN str_path(SubSeq(s, 1, Len(s) - 1)) ELSE s

\* a path is <<directory, name, ...>>; the directory is one string, as str(Path)
\* prints it
path_name(path) == path[Len(path)]

path_parent(path) == SubSeq(path, 1, Len(path) - 1)

\* str(file_path.parent) of a file created directly in a watched directory
parent_str(path) == path[1]

ARCHIVED == <<"a", "r", "c", "h", "i", "v", "e", "d">>

\* file_path.parent / "archived"
archive_dir(path) == Append(path_parent(path), ARCHIVED)

Dir == [kind |-> "dir"]

File(c) == [kind |-> "file", content |-> c]

exists(f, path) == path \in DOMAIN f

is_dir(f, path) == exists(f, path) /\ f[path].kind = "dir"

is_file(f, path) == exists(f, path) /\ f[path].kind = "file"

with_node(f, path, node) ==
    [q \in DOMAIN f \cup {path} |-> IF q = path THEN node ELSE f[q]]

\* archive_dir.mkdir(exist_ok=True): FileExistsError when the path is no directory
mkdir_exist_ok(f, path) ==
    IF is_dir(f, path) THEN [ok |-> TRUE, fs |-> f]
    ELSE IF exists(f, path) THEN [ok |-> FALSE, fs |-> f]
    ELSE [ok |-> TRUE, fs |-> with_node(f, path, Dir)]

shutil_move_unlinks(f, src, dst) ==
    IF ~exists(f, src) THEN [ok |-> FALSE, fs |-> f]
    ELSE [ok |-> TRUE, fs |-> [q \in DOMAIN f \ {src} |-> f[q]]]

\* shutil.move(src, dst) of a file: into dst when dst is a directory (an error
\* when the name is taken there), else a rename that replaces a file at dst
shutil_move(f, src, dst) ==
    LET real_dst == IF is_dir(f, dst) THEN Append(dst, path_name(src)) ELSE dst
    IN  IF ~exists(f, src) THEN [ok |-> FALSE, fs |-> f]
        ELSE IF is_dir(f, dst) /\ exists(f, real_dst) THEN [ok |-> FALSE, fs |-> f]
        ELSE [ok |-> TRUE,
              fs |-> [q \in (DOMAIN f \ {src}) \cup {real_dst} |->
                         IF q = real_dst THEN f[src] ELSE f[q]]]

---------------------------------------------------------------------------
(* The handler's decisions *)

qualifies_directories_too(event) ==
    lower(suffix(path_name(event.src_path))) = <<".", "m", "d">>

\* on_created: not a directory event, and file_path.suffix.lower() == '.md'
qualifies(event) ==
    /\ ~event.is_directory
    /\ lower(suffix(path_name(event.src_path))) = <<".", "m", "d">>

\* self.dir_note_map.get(str(file_path.parent))
note_id_of(map, path) ==
    IF parent_str(path) \in DOMAIN map THEN map[parent_str(path)] ELSE None

build_properties_if_truthy(title, note_id) ==
    LET name_prop == [title |-> <<[text |-> [content |-> title]]>>]
    IN  IF note_id # None /\ note_id # ""
        THEN [k \in {"Name", "Lit Notes"} |->
                 IF k = "Name" THEN name_prop ELSE [relation |-> <<[id |-> note_id]>>]]
        ELSE [k \in {"Name"} |-> name_prop]

\* properties = {"Name": ...}; if note_id is not None: properties["Lit Notes"] = ...
build_properties(title, note_id) ==
    LET name_prop == [title |-> <<[text |-> [content |-> title]]>>]
    IN  IF note_id # None
        THEN [k \in {"Name", "Lit Notes"} |->
                 IF k = "Name" THEN name_prop ELSE [relation |-> <<[id |-> note_id]>>]]
        ELSE [k \in {"Name"} |-> name_prop]

except_clause_only_remote(kind) == IF kind = "remote" THEN "idle" ELSE "dead"

\* except Exception as e: logging.error(...): every error raised inside the try
\* block (kind: "read", "remote", "disposal") is logged and process_markdown
\* returns to the observer thread; an error that is not caught ends that thread
except_clause(kind) == "idle"

after_read_goes_on(raised) == "call"

\* where process_markdown goes when open/read is over
after_read(raised) == IF raised THEN except_clause("read") ELSE "call"

after_create_archive_anyway(raised) == "mkdir"

\* where process_markdown goes when notion.pages.create is over: on to the
\* archive step, or to the except clause, which logs and returns
after_create(raised) == IF raised THEN except_clause("remote") ELSE "mkdir"

may_dispatch_any_time(at, obs) == obs = "running" /\ at # "dead"

\* the observer thread takes the next event off its queue only between two
\* calls of on_created, and only while it has not been told to stop
may_dispatch(at, obs) == obs = "running" /\ at = "idle"

rest_of_queue_dropped(q) == <<>>

\* the observer thread takes one event off its queue; the others wait
rest_of_queue(q) == Tail(q)

emits_recursive(w, path) == path[1] = str_path(w)

\* observer.schedule(event_handler, watch_dir, recursive=False): the watch on w
\* reports what is created directly in w
emits(w, path) == path_parent(path) = <<str_path(w)>>

---------------------------------------------------------------------------
(* Spec: the observer thread dispatching creation events to the handler *)

\* the directory strings of the configuration: "/n", "/d", and "/n/"
notes == <<"/", "n">>
drafts == <<"/", "d">>
notes_slash == <<"/", "n", "/">>

WatchDirs == {notes, drafts}

Target(d, id) == [directory |-> d, note_id |-> id]

\* {"directory": "/n", "note_id": "abc123"}, {"directory": "/d"}; and a
\* configuration whose note_id is the empty string
WatchedTargets ==
    {<<Target(notes, "abc123"), Target(drafts, None)>>,
     <<Target(notes, ""), Target(drafts, "abc123")>>}

\* dir_note_map once main's loop has validated every target: a later target of
\* the same directory string replaces the earlier one
dir_note_map_after(targets) ==
    [d \in {targets[i].directory : i \in DOMAIN targets} |->
        LET last == CHOOSE i \in DOMAIN targets :
                        /\ targets[i].directory = d
                        /\ \A j \in DOMAIN targets : targets[j].directory = d => j <= i
        IN  targets[last].note_id]

NoteMaps == {dir_note_map_after(t) : t \in WatchedTargets}

a_md == <<"a", ".", "m", "d">>
a_MD == <<"a", ".", "M", "D">>
a_b_md == <<"a", ".", "b", ".", "m", "d">>
a_txt == <<"a", ".", "t", "x", "t">>
dot_md == <<".", "m", "d">>
sub == <<"s", "u", "b">>

FileNames == {a_md, a_MD, a_b_md, a_txt, dot_md}

DirNames == {a_md, sub}

\* names of files that are gone again before the handler reads them
VanishingNames == {a_md}

\* "# T\nB": a heading line and a paragraph line
NewContent == <<"#", " ", "T", "\n", "B">>

OldContent == <<"o", "l", "d">>

\* what /n/archived is when the observer starts
ArchiveLayouts ==
    LET arch == <<notes, ARCHIVED>>
    IN  {<<>>,
         [q \in {arch} |-> File(OldContent)],
         [q \in {arch} |-> Dir],
         [q \in {arch, Append(arch, a_md)} |-> IF q = arch THEN Dir ELSE File(OldContent)],
         [q \in {arch, Append(arch, a_md)} |-> Dir],
         [q \in {arch, Append(arch, a_md), arch \o <<a_md, a_md>>} |->
             IF Len(q) = 4 THEN File(OldContent) ELSE Dir]}

NoCall ==
    [id |-> 0, src_path |-> <<>>, note_id |-> None, content |-> <<>>,
     fs0 |-> <<>>, raised |-> FALSE, moved |-> FALSE]

ConvOff ==
    /\ content = <<>> /\ cv_pc = "off" /\ lines = <<>> /\ line_no = 0
    /\ current_paragraph = <<>> /\ blocks = <<>> /\ paragraph_block = <<>>

\* what the handler was doing when the interrupt came
NotInterrupted == [id |-> 0, at |-> "none"]

\* main() has validated every target, scheduled it and sits in its sleep loop
Watching(targets) ==
    /\ sync_targets = targets
    /\ dir_note_map = dir_note_map_after(targets)
    /\ dirs = [d \in {str_path(targets[i].directory) : i \in DOMAIN targets} |-> "ok"]
    /\ main = [pc |-> "loop", i |-> Len(targets) + 1,
               validated_dirs |-> [i \in DOMAIN targets |-> targets[i].directory],
               exit_code |-> None, created |-> {}, in_flight |-> NotInterrupted]
    /\ watches = {targets[i].directory : i \in DOMAIN targets}
    /\ observer = "running"

\* every layout of archived under the first configuration, and the second
\* configuration on an empty file system
Init ==
    /\ fs \in ArchiveLayouts
    /\ \E targets \in WatchedTargets :
          /\ (targets[1].note_id = "" => fs = <<>>)
          /\ Watching(targets)
    /\ events = <<>>
    /\ queue = <<>>
    /\ pc = "idle"
    /\ cur = NoCall
    /\ requests = <<>>
    /\ pages = <<>>
    /\ log = <<>>
    /\ ConvOff

Logged(op) == Append(log, [event |-> cur.id, op |-> op])

Raise(event) ==
    /\ Len(events) < MaxEvents
    /\ events' = Append(events, event)
    /\ queue' = Append(queue, Len(events) + 1)

\* a file is created in a watched directory
CreateFile ==
    \E w \in watches, name \in FileNames :
        /\ observer = "running"
        /\ ~exists(fs, <<str_path(w), name>>)
        /\ Raise([is_directory |-> FALSE, src_path |-> <<str_path(w), name>>])
        /\ fs' = with_node(fs, <<str_path(w), name>>, File(NewContent))
        /\ UNCHANGED <<dir_note_map, pc, cur, requests, pages, log, convVars, mainVars>>

\* a file is created in a watched directory and is gone again before it is read
CreateFileAndRemove ==
    \E w \in watches, name \in VanishingNames :
        /\ observer = "running"
        /\ ~exists(fs, <<str_path(w), name>>)
        /\ Raise([is_directory |-> FALSE, src_path |-> <<str_path(w), name>>])
        /\ UNCHANGED <<fs, dir_note_map, pc, cur, requests, pages, log, convVars, mainVars>>

\* a directory is created in a watched directory
CreateDirectory ==
    \E w \in watches, name \in DirNames :
        /\ observer = "running"
        /\ ~exists(fs, <<str_path(w), name>>)
        /\ Raise([is_directory |-> TRUE, src_path |-> <<str_path(w), name>>])
        /\ fs' = with_node(fs, <<str_path(w), name>>, Dir)
        /\ UNCHANGED <<dir_note_map, pc, cur, requests, pages, log, convVars, mainVars>>

\* the observer thread calls on_created(event); the event qualifies and the
\* handler enters time.sleep(0.5)
OnCreatedMarkdown ==
    /\ may_dispatch(pc, observer)
    /\ queue # <<>>
    /\ qualifies(events[Head(queue)])
    /\ queue' = rest_of_queue(queue)
    /\ cur' = [NoCall EXCEPT !.id = Head(queue),
                             !.src_path = events[Head(queue)].src_path,
                             !.fs0 = fs]
    /\ pc' = "sleep"
    /\ UNCHANGED <<fs, dir_note_map, events, requests, pages, log, convVars, mainVars>>

\* on_created(event) returns at once: a directory event, or no .md suffix
OnCreatedIgnored ==
    /\ may_dispatch(pc, observer)
    /\ queue # <<>>
    /\ ~qualifies(events[Head(queue)])
    /\ queue' = rest_of_queue(queue)
    /\ cur' = [NoCall EXCEPT !.id = Head(queue),
                             !.src_path = events[Head(queue)].src_path,
                             !.fs0 = fs]
    /\ pc' = "idle"
    /\ UNCHANGED <<fs, dir_note_map, events, requests, pages, log, convVars, mainVars>>

\* the sleep is over: note_id is looked up, process_markdown opens and reads the file
ReadFile ==
    /\ pc = "sleep"
    /\ main.pc # "exited"
    /\ is_file(fs, cur.src_path)
    /\ cur' = [cur EXCEPT !.note_id = note_id_of(dir_note_map, cur.src_path),
                          !.content = fs[cur.src_path].content]
    /\ log' = Logged("read")
    /\ pc' = after_read(FALSE)
    /\ UNCHANGED <<fs, dir_note_map, events, queue, requests, pages, convVars, mainVars>>

\* open() or read() raises (file gone, a directory, no permission, not UTF-8):
\* the except clause logs and process_markdown returns
ReadFails ==
    /\ pc = "sleep"
    /\ main.pc # "exited"
    /\ cur' = [cur EXCEPT !.note_id = note_id_of(dir_note_map, cur.src_path)]
    /\ log' = Logged("read_failed")
    /\ pc' = after_read(TRUE)
    /\ UNCHANGED <<fs, dir_note_map, events, queue, requests, pages, convVars, mainVars>>

\* title, properties and children are built and notion.pages.create is called
CallCreate ==
    /\ pc = "call"
    /\ main.pc # "exited"
    /\ requests' = Append(requests,
           [event |-> cur.id,
            parent |-> [data_source_id |-> DATABASE_ID],
            properties |-> build_properties(stem(path_name(cur.src_path)), cur.note_id),
            children |-> markdown_to_blocks(cur.content)])
    /\ log' = Logged("create_called")
    /\ pc' = "creating"
    /\ UNCHANGED <<fs, dir_note_map, events, queue, cur, pages, convVars, mainVars>>

\* notion.pages.create returns the new page
CreateReturns ==
    /\ pc = "creating"
    /\ main.pc # "exited"
    /\ pages' = Append(pages, [id |-> Len(pages) + 1, request |-> Len(requests)])
    /\ log' = Logged("create_returned")
    /\ pc' = after_create(FALSE)
    /\ UNCHANGED <<fs, dir_note_map, events, queue, cur, requests, convVars, mainVars>>

\* notion.pages.create raises
CreateRaises ==
    /\ pc = "creating"
    /\ main.pc # "exited"
    /\ cur' = [cur EXCEPT !.raised = TRUE]
    /\ log' = Logged("create_raised")
    /\ pc' = after_create(TRUE)
    /\ UNCHANGED <<fs, dir_note_map, events, queue, requests, pages, convVars, mainVars>>

\* some watch reports the creation of path
Reported(path) == observer = "running" /\ \E w \in watches : emits(w, path)

\* archive_dir.mkdir(exist_ok=True); a directory it creates is itself a creation
\* in the watched directory, and the observer queues a directory event for it
MkdirArchive ==
    /\ pc = "mkdir"
    /\ main.pc # "exited"
    /\ LET archive == archive_dir(cur.src_path)
           r == mkdir_exist_ok(fs, archive)
       IN  /\ fs' = r.fs
           /\ log' = Logged(IF r.ok THEN "mkdir" ELSE "mkdir_failed")
           /\ pc' = IF r.ok THEN "move" ELSE except_clause("disposal")
           /\ IF r.fs # fs /\ Reported(archive)
              THEN /\ events' = Append(events, [is_directory |-> TRUE, src_path |-> archive])
                   /\ queue' = Append(queue, Len(events) + 1)
              ELSE UNCHANGED <<events, queue>>
    /\ UNCHANGED <<dir_note_map, cur, requests, pages, convVars, mainVars>>

\* mkdir raises for a reason outside the model (no permission, disk full)
MkdirFails ==
    /\ pc = "mkdir"
    /\ main.pc # "exited"
    /\ log' = Logged("mkdir_failed")
    /\ pc' = except_clause("disposal")
    /\ UNCHANGED <<fs, dir_note_map, events, queue, cur, requests, pages, convVars, mainVars>>

\* shutil.move(str(file_path), str(archive_dir / file_path.name))
MoveFile ==
    /\ pc = "move"
    /\ main.pc # "exited"
    /\ LET r == shutil_move(fs, cur.src_path,
                            Append(archive_dir(cur.src_path), path_name(cur.src_path)))
       IN  /\ fs' = r.fs
           /\ log' = Logged(IF r.ok THEN "move" ELSE "move_failed")
           /\ cur' = [cur EXCEPT !.moved = r.ok]
           /\ pc' = IF r.ok THEN "idle" ELSE except_clause("disposal")
    /\ UNCHANGED <<dir_note_map, events, queue, requests, pages, convVars, mainVars>>

\* shutil.move raises for a reason outside the model (no permission)
MoveFails ==
    /\ pc = "move"
    /\ main.pc # "exited"
    /\ log' = Logged("move_failed")
    /\ pc' = except_clause("disposal")
    /\ UNCHANGED <<fs, dir_note_map, events, queue, cur, requests, pages, convVars, mainVars>>

Next ==
    \/ CreateFile
    \/ CreateFileAndRemove
    \/ CreateDirectory
    \/ OnCreatedMarkdown
    \/ OnCreatedIgnored
    \/ ReadFile
    \/ ReadFails
    \/ CallCreate
    \/ CreateReturns
    \/ CreateRaises
    \/ MkdirArchive
    \/ MkdirFails
    \/ MoveFile
    \/ MoveFails

Spec == Init /\ [][Next]_vars

---------------------------------------------------------------------------
(* MainSpec: main() from the loaded targets to the exit of the process, with *)
(* the observer thread and the handler of Spec                              *)

\* a directory of the configuration: there and readable, there and not
\* readable, not there, not there and not creatable
Statuses == {"ok", "unreadable", "missing", "uncreatable"}

\* what load_sync_targets() may return
StartupTargets ==
    {<<>>,
     <<Target(notes, "abc123")>>,
     <<Target(notes, "abc123"), Target(drafts, None)>>,
     <<Target(notes_slash, "abc123")>>}

DirsOf(targets) == {str_path(targets[i].directory) : i \in DOMAIN targets}

MainInit ==
    /\ sync_targets \in StartupTargets
    /\ dirs \in {f \in [DirsOf(sync_targets) -> Statuses] :
                    Len(sync_targets) > 1 =>
                        \E d \in DOMAIN f : f[d] \in {"unreadable", "uncreatable"}}
    /\ main = [pc |-> "validate", i |-> 1, validated_dirs |-> <<>>,
               exit_code |-> None, created |-> {}, in_flight |-> NotInterrupted]
    /\ watches = {}
    /\ observer = "new"
    /\ fs = <<>>
    /\ dir_note_map = <<>>
    /\ events = <<>>
    /\ queue = <<>>
    /\ pc = "idle"
    /\ cur = NoCall
    /\ requests = <<>>
    /\ pages = <<>>
    /\ log = <<>>
    /\ ConvOff

validate_without_access_check(status) ==
    IF status = "uncreatable" THEN [exit |-> TRUE, status |-> status, created |-> FALSE]
    ELSE [exit |-> FALSE, status |-> IF status = "missing" THEN "ok" ELSE status,
          created |-> status = "missing"]

\* the body of main's loop for one directory: mkdir(parents=True, exist_ok=True)
\* when it does not exist, sys.exit(1) when that raises, then sys.exit(1) when
\* os.access(watch_path, os.R_OK) is false
validate(status) ==
    IF status = "uncreatable" THEN [exit |-> TRUE, status |-> status, created |-> FALSE]
    ELSE IF status = "unreadable" THEN [exit |-> TRUE, status |-> status, created |-> FALSE]
    ELSE [exit |-> FALSE, status |-> "ok", created |-> status = "missing"]

\* dir_note_map[watch_dir] = note_id
dict_set(map, key, value) ==
    [k \in DOMAIN map \cup {key} |-> IF k = key THEN value ELSE map[k]]

\* one turn of the loop over sync_targets that ends in validated_dirs.append
ValidateTarget ==
    /\ main.pc = "validate"
    /\ main.i <= Len(sync_targets)
    /\ LET target == sync_targets[main.i]
           d == str_path(target.directory)
           v == validate(dirs[d])
       IN  /\ ~v.exit
           /\ dirs' = [dirs EXCEPT ![d] = v.status]
           /\ dir_note_map' = dict_set(dir_note_map, target.directory, target.note_id)
           /\ main' = [main EXCEPT !.i = main.i + 1,
                                   !.validated_dirs = Append(main.validated_dirs, target.directory),
                                   !.created = IF v.created THEN main.created \cup {d}
                                               ELSE main.created]
    /\ UNCHANGED <<sync_targets, watches, observer, fs, events, queue, pc, cur,
                   requests, pages, log, convVars>>

\* one turn of the loop that ends in sys.exit(1)
ValidateExits ==
    /\ main.pc = "validate"
    /\ main.i <= Len(sync_targets)
    /\ validate(dirs[str_path(sync_targets[main.i].directory)]).exit
    /\ main' = [main EXCEPT !.pc = "exited", !.exit_code = "1"]
    /\ UNCHANGED <<sync_targets, dirs, watches, observer, pipeVars, convVars>>

\* if not validated_dirs: sys.exit(1)
NoValidDirectory ==
    /\ main.pc = "validate"
    /\ main.i > Len(sync_targets)
    /\ main.validated_dirs = <<>>
    /\ main' = [main EXCEPT !.pc = "exited", !.exit_code = "1"]
    /\ UNCHANGED <<sync_targets, dirs, watches, observer, pipeVars, convVars>>

\* for watch_dir in validated_dirs: observer.schedule(..., recursive=False)
Schedule ==
    /\ main.pc = "validate"
    /\ main.i > Len(sync_targets)
    /\ main.validated_dirs # <<>>
    /\ watches' = {main.validated_dirs[i] : i \in DOMAIN main.validated_dirs}
    /\ main' = [main EXCEPT !.pc = "start"]
    /\ UNCHANGED <<sync_targets, dirs, observer, pipeVars, convVars>>

\* observer.start(); main enters while True: time.sleep(1)
Start ==
    /\ main.pc = "start"
    /\ observer' = "running"
    /\ main' = [main EXCEPT !.pc = "loop"]
    /\ UNCHANGED <<sync_targets, dirs, watches, pipeVars, convVars>>

\* KeyboardInterrupt in the sleep loop: observer.stop()
Interrupt ==
    /\ main.pc = "loop"
    /\ observer' = "stopping"
    /\ main' = [main EXCEPT !.pc = "join",
                            !.in_flight = IF pc = "idle" THEN NotInterrupted
                                          ELSE [id |-> cur.id, at |-> pc]]
    /\ UNCHANGED <<sync_targets, dirs, watches, pipeVars, convVars>>

\* the observer thread, told to stop, leaves its loop once on_created has returned
ObserverThreadEnds ==
    /\ observer = "stopping"
    /\ pc = "idle"
    /\ observer' = "stopped"
    /\ UNCHANGED <<sync_targets, dirs, main, watches, pipeVars, convVars>>

join_returns_at_once(obs) == TRUE

\* observer.join() returns when the observer thread has ended
join_returns(obs) == obs = "stopped"

\* observer.join() returns and main() with it: the process exits
JoinReturns ==
    /\ main.pc = "join"
    /\ join_returns(observer)
    /\ main' = [main EXCEPT !.pc = "exited", !.exit_code = "0"]
    /\ UNCHANGED <<sync_targets, dirs, watches, observer, pipeVars, convVars>>

\* a file is created in a subdirectory of a watched directory
CreateFileInSubdirectory ==
    \E w \in watches, d \in DOMAIN fs :
        LET path == Append(d, a_md)
        IN  /\ observer = "running"
            /\ Len(d) = 2
            /\ d[1] = str_path(w)
            /\ is_dir(fs, d)
            /\ ~exists(fs, path)
            /\ fs' = with_node(fs, path, File(NewContent))
            /\ IF Reported(path)
               THEN Raise([is_directory |-> FALSE, src_path |-> path])
               ELSE UNCHANGED <<events, queue>>
            /\ UNCHANGED <<dir_note_map, pc, cur, requests, pages, log, convVars, mainVars>>

MainNext ==
    \/ ValidateTarget
    \/ ValidateExits
    \/ NoValidDirectory
    \/ Schedule
    \/ Start
    \/ Interrupt
    \/ ObserverThreadEnds
    \/ JoinReturns
    \/ CreateFileInSubdirectory
    \/ Next

MainSpec == MainInit /\ [][MainNext]_vars

---------------------------------------------------------------------------
(* FairSpec: the handler of Spec on one watched directory, with the observer *)
(* thread running on and every create-page call answered                     *)

\* archived is not there, or a file, or an empty directory
FairLayouts == {f \in ArchiveLayouts : Cardinality(DOMAIN f) <= 1}

FairInit ==
    /\ fs \in FairLayouts
    /\ Watching(<<Target(notes, "abc123")>>)
    /\ events = <<>>
    /\ queue = <<>>
    /\ pc = "idle"
    /\ cur = NoCall
    /\ requests = <<>>
    /\ pages = <<>>
    /\ log = <<>>
    /\ ConvOff

\* the steps the observer thread makes on its own
HandlerStep ==
    \/ OnCreatedMarkdown
    \/ OnCreatedIgnored
    \/ ReadFile
    \/ ReadFails
    \/ CallCreate
    \/ MkdirArchive
    \/ MkdirFails
    \/ MoveFile
    \/ MoveFails

\* notion.pages.create returns or raises
RemoteAnswers == CreateReturns \/ CreateRaises

FairSpec ==
    /\ FairInit
    /\ [][Next]_vars
    /\ WF_vars(HandlerStep)
    /\ WF_vars(RemoteAnswers)

---------------------------------------------------------------------------
(* Claims about the block converter, checked under ConvSpec *)

Last(s) == s[Len(s)]

Ellipsis == <<".", ".", ".">>

EndsWithEllipsis(t) == Len(t) >= 3 /\ SubSeq(t, Len(t) - 2, Len(t)) = Ellipsis

\* the lines as the scan sees them: split at newlines, trailing whitespace removed
ScannedLines(c) == [i \in 1..Len(split(c)) |-> rstrip(split(c)[i])]

\* the three exact heading prefixes, character by character
HasPrefix1(l) == Len(l) >= 2 /\ l[1] = "#" /\ l[2] = " "
HasPrefix2(l) == Len(l) >= 3 /\ l[1] = "#" /\ l[2] = "#" /\ l[3] = " "
HasPrefix3(l) == Len(l) >= 4 /\ l[1] = "#" /\ l[2] = "#" /\ l[3] = "#" /\ l[4] = " "

HeadingLevel(l) ==
    IF HasPrefix1(l) THEN 1 ELSE IF HasPrefix2(l) THEN 2 ELSE IF HasPrefix3(l) THEN 3 ELSE 0

HeadingType(n) == IF n = 1 THEN "heading_1" ELSE IF n = 2 THEN "heading_2" ELSE "heading_3"

IsHeadingBlock(b) == b.type \in {"heading_1", "heading_2", "heading_3"}

IsPlainLine(l) == l # <<>> /\ HeadingLevel(l) = 0

\* the lines that open a block: heading lines, and the first line of each
\* maximal run of consecutive plain lines
BlockStarts(L) ==
    {i \in DOMAIN L :
        \/ HeadingLevel(L[i]) > 0
        \/ IsPlainLine(L[i]) /\ (i = 1 \/ ~IsPlainLine(L[i - 1]))}

RunEnd(L, i) ==
    CHOOSE j \in i..Len(L) :
        /\ \A k \in i..j : IsPlainLine(L[k])
        /\ (j = Len(L) \/ ~IsPlainLine(L[j + 1]))

CutToLimit(t) == IF Len(t) > 2000 THEN SubSeq(t, 1, 1997) \o Ellipsis ELSE t

\* the blocks the lines of c stand for, in line order; with truncate, a
\* paragraph's joined lines are cut to the limit
MirroredBlocks(c, truncate) ==
    LET L == ScannedLines(c)
        S == BlockStarts(L)
        nth(k) == CHOOSE i \in S : Cardinality({j \in S : j < i}) = k - 1
        block(i) ==
            IF HeadingLevel(L[i]) > 0
            THEN Block(HeadingType(HeadingLevel(L[i])), slice_from(L[i], HeadingLevel(L[i]) + 1))
            ELSE LET text == join(SubSeq(L, i, RunEnd(L, i)))
                 IN  Block("paragraph", IF truncate THEN CutToLimit(text) ELSE text)
    IN  [k \in 1..Cardinality(S) |-> block(nth(k))]

\* C5 (as claimed): every block of the returned sequence, heading or
\* paragraph, has a text of at most 2000 characters.
C5_EveryBlockWithinLimit ==
    cv_pc = "returned" => \A i \in 1..Len(blocks) : Len(blocks[i].text) <= 2000

\* C6: create_paragraph_block(t) keeps t when len(t) <= 2000, and for
\* len(t) > 2000 gives exactly the first 1997 characters of t followed by
\* "...", which is at most 2000 long and ends with "...".
C6_ParagraphTruncation ==
    cv_pc = "paragraph" =>
        LET t == content
            out == paragraph_block.text
        IN  /\ paragraph_block.type = "paragraph"
            /\ Len(t) <= 2000 => out = t
            /\ Len(t) > 2000 =>
                /\ Len(out) = 2000
                /\ \A i \in 1..1997 : out[i] = t[i]
                /\ \A i \in 1998..2000 : out[i] = "."
                /\ EndsWithEllipsis(out)

C6_Witness ==
    /\ cv_pc = "paragraph"
    /\ Len(content) = 2001
    /\ Len(paragraph_block.text) = 2000
    /\ EndsWithEllipsis(paragraph_block.text)

\* C7 (as claimed): the returned blocks mirror line order: one heading block
\* per heading line, one paragraph block per maximal run of plain lines whose
\* text is those lines joined by a newline, nothing for a blank line.
C7_MirrorsLines_Untruncated ==
    cv_pc = "returned" => blocks = MirroredBlocks(content, FALSE)

\* C7 (amended): as above, but a paragraph's text is the joined lines cut by
\* the paragraph truncation rule (first 1997 characters and "...") when the
\* joined lines are longer than 2000 characters.
C7_MirrorsLines ==
    cv_pc = "returned" => blocks = MirroredBlocks(content, TRUE)

\* "# T\n\nBody\n\n## S" has returned Heading(1,"T"), Paragraph("Body"), Heading(2,"S")
C7_Witness ==
    /\ cv_pc = "returned"
    /\ content = ExampleText
    /\ blocks = <<Block("heading_1", <<"T">>),
                  Block("paragraph", <<"B", "o", "d", "y">>),
                  Block("heading_2", <<"S">>)>>

\* C8: after the loop has handled a line (trailing whitespace removed): a
\* line beginning "# ", "## " or "### " has just appended the heading of
\* level 1, 2 or 3 with the rest of the line; any other non-blank line, among
\* them four or more hashes and a hash without a following space, is the last
\* line of the paragraph buffer; and the number of heading blocks is the
\* number of lines handled that begin with one of the three prefixes.
C8_LineClassification ==
    (cv_pc = "loop" /\ line_no > 1) =>
        LET l == rstrip(lines[line_no - 1])
            n == HeadingLevel(l)
        IN  /\ n > 0 =>
                /\ blocks # <<>>
                /\ Last(blocks) = Block(HeadingType(n), SubSeq(l, n + 2, Len(l)))
                /\ current_paragraph = <<>>
            /\ (n = 0 /\ l # <<>>) =>
                /\ current_paragraph # <<>>
                /\ Last(current_paragraph) = l
            /\ Cardinality({i \in 1..Len(blocks) : IsHeadingBlock(blocks[i])})
                 = Cardinality({i \in 1..(line_no - 1) : HeadingLevel(rstrip(lines[i])) > 0})

\* "# a\n####" handled: a level 1 heading, then four hashes in the buffer
C8_Witness ==
    /\ cv_pc = "loop"
    /\ content = <<"#", " ", "a", "\n", "#", "#", "#", "#", " ", "a">>
    /\ line_no = 3
    /\ blocks = <<Block("heading_1", <<"a">>)>>
    /\ current_paragraph = <<<<"#", "#", "#", "#", " ", "a">>>>

\* C9: the empty string and every text of spaces, tabs and newlines only
\* return the empty sequence.
C9_BlankInputNoBlocks ==
    (cv_pc = "returned" /\ Chars(content) \subseteq {" ", "\t", "\n"}) => blocks = <<>>

C9_Witness ==
    /\ cv_pc = "returned"
    /\ content = <<" ", "\t", "\n", " ">>
    /\ blocks = <<>>

---------------------------------------------------------------------------
(* Claims about the event handler, checked under Spec *)

DisposalOps == {"mkdir", "mkdir_failed", "move", "move_failed"}

LoggedFor(e, op) == {i \in 1..Len(log) : log[i].event = e /\ log[i].op = op}

\* f differs from f0 only by what was created in the watched directories
OnlyCreationsSince(f0, f) ==
    /\ \A q \in DOMAIN f0 : q \in DOMAIN f /\ f[q] = f0[q]
    /\ \A q \in DOMAIN f \ DOMAIN f0 : \E e \in 1..Len(events) : events[e].src_path = q

\* C1: a disposal step (mkdir of archived/, move) of an event comes only
\* after the create-page call of that event has returned, the file system is
\* changed by the handler only then, and no event has more than one
\* create-page call.
C1_DisposalAfterCreateAndCreateOnce ==
    /\ \A i \in 1..Len(log) :
          log[i].op \in DisposalOps =>
              \E j \in 1..(i - 1) :
                  log[j].event = log[i].event /\ log[j].op = "create_returned"
    /\ (cur.id > 0 /\ ~OnlyCreationsSince(cur.fs0, fs)) =>
          LoggedFor(cur.id, "create_returned") # {}
    /\ \A e \in 1..Len(events) :
          /\ Cardinality(LoggedFor(e, "create_called")) <= 1
          /\ Cardinality({i \in 1..Len(requests) : requests[i].event = e}) <= 1

\* an event whose call returned and whose file was moved, after an event
\* whose call raised and was not made again
C1_Witness ==
    /\ Len(events) = 2
    /\ LoggedFor(1, "create_raised") # {}
    /\ LoggedFor(2, "move") # {}
    /\ cur.moved
    /\ Len(requests) = 2

\* C2: once the create-page call of the event in hand has raised, the file is
\* still at its path with the content that was read, nothing that existed
\* when the event was taken is gone or changed, nothing but newly created
\* files was added (so no archived/ directory), and the handler made no
\* disposal step for the event.
C2_RemoteFailureLeavesFile ==
    cur.raised =>
        /\ is_file(fs, cur.src_path)
        /\ fs[cur.src_path].content = cur.content
        /\ OnlyCreationsSince(cur.fs0, fs)
        /\ exists(fs, archive_dir(cur.src_path)) <=> exists(cur.fs0, archive_dir(cur.src_path))
        /\ \A op \in DisposalOps : LoggedFor(cur.id, op) = {}

C2_Witness ==
    /\ cur.raised
    /\ pc = "idle"
    /\ is_file(fs, cur.src_path)
    /\ ~exists(fs, archive_dir(cur.src_path))

\* C3 (as claimed): when the create-page call has returned and shutil.move
\* succeeds, the original path is gone, <parent>/archived is a directory and
\* <parent>/archived/<name> is a file with the content the original held.
C3_ArchivedCopy ==
    [][(pc = "move" /\ cur'.moved) =>
          LET dst == Append(archive_dir(cur.src_path), path_name(cur.src_path))
          IN  /\ ~exists(fs', cur.src_path)
              /\ is_dir(fs', archive_dir(cur.src_path))
              /\ is_file(fs', dst)
              /\ fs'[dst].content = cur.content]_vars

\* the title of a request is the file name without its extension: the name is
\* the title followed by a dot and at least one character that is no dot
IsNameWithoutExtension(title, name) ==
    /\ Len(title) >= 1
    /\ Len(name) >= Len(title) + 2
    /\ SubSeq(name, 1, Len(title)) = title
    /\ name[Len(title) + 1] = "."
    /\ \A i \in (Len(title) + 2)..Len(name) : name[i] # "."

\* C4: every create-page request has the title property, whose text is the
\* file name without extension; the relation property references exactly the
\* note id of the call when there is one and is not there at all when there
\* is none.
C4_RequestProperties ==
    \A i \in 1..Len(requests) :
        LET r == requests[i]
            path == events[r.event].src_path
            note_id == dir_note_map[path[1]]
        IN  /\ "Name" \in DOMAIN r.properties
            /\ Len(r.properties["Name"].title) = 1
            /\ IsNameWithoutExtension(r.properties["Name"].title[1].text.content, path_name(path))
            /\ note_id # None =>
                  /\ "Lit Notes" \in DOMAIN r.properties
                  /\ r.properties["Lit Notes"] = [relation |-> <<[id |-> note_id]>>]
            /\ note_id = None => DOMAIN r.properties = {"Name"}

\* /notes/a.b.md with note id "abc123", and /drafts/a.md without a note id
C4_Witness ==
    /\ Len(requests) = 2
    /\ dir_note_map[drafts] = None
    /\ requests[1].properties =
          [k \in {"Name", "Lit Notes"} |->
              IF k = "Name" THEN [title |-> <<[text |-> [content |-> <<"a", ".", "b">>]]>>]
              ELSE [relation |-> <<[id |-> "abc123"]>>]]
    /\ requests[2].properties = [k \in {"Name"} |-> [title |-> <<[text |-> [content |-> <<"a">>]]>>]]

\* the extension, compared without case, is ".md": the name ends in a dot,
\* m or M, d or D, and the dot is not its first character
HasMdExtension(name) ==
    /\ Len(name) >= 4
    /\ name[Len(name) - 2] = "."
    /\ name[Len(name) - 1] \in {"m", "M"}
    /\ name[Len(name)] \in {"d", "D"}

Started(e) ==
    \/ cur.id = e /\ pc # "idle"
    \/ \E i \in 1..Len(log) : log[i].event = e
    \/ \E i \in 1..Len(requests) : requests[i].event = e

\* C10: the pipeline is started for an event only if the event is no
\* directory event and the extension is ".md" without regard to case; any
\* other event leaves no read, no remote call and no change of the file system.
C10_OnlyMarkdownFilesStart ==
    /\ \A e \in 1..Len(events) :
          Started(e) =>
              ~events[e].is_directory /\ HasMdExtension(path_name(events[e].src_path))
    /\ (cur.id > 0 /\ ~(~events[cur.id].is_directory
                        /\ HasMdExtension(path_name(events[cur.id].src_path)))) =>
          /\ pc = "idle"
          /\ OnlyCreationsSince(cur.fs0, fs)

\* a directory named a.md and a file named .md were both passed over, a.MD was taken
C10_Witness ==
    /\ Len(events) = 2
    /\ events[1].is_directory
    /\ path_name(events[1].src_path) = a_md
    /\ path_name(events[2].src_path) = a_MD
    /\ cur.id = 2
    /\ pc = "sleep"
    /\ log = <<>>

ReadAttempts(e) == LoggedFor(e, "read") \cup LoggedFor(e, "read_failed")

RequestsOf(e) == {i \in 1..Len(requests) : requests[i].event = e}

\* C13: an event whose read failed has one read attempt and no more, no
\* create-page call and no disposal step; when its call is the last one the
\* handler has returned, and the file system holds what it held when the
\* event was taken plus what was created since (archived/ is not created).
C13_ReadFailureAborts ==
    \A e \in 1..Len(events) :
        LoggedFor(e, "read_failed") # {} =>
            /\ Cardinality(ReadAttempts(e)) = 1
            /\ LoggedFor(e, "create_called") = {}
            /\ RequestsOf(e) = {}
            /\ \A op \in DisposalOps : LoggedFor(e, op) = {}
            /\ cur.id = e =>
                  /\ pc = "idle"
                  /\ OnlyCreationsSince(cur.fs0, fs)
                  /\ exists(fs, archive_dir(cur.src_path))
                        <=> exists(cur.fs0, archive_dir(cur.src_path))

\* the read of a file that is there failed (no permission, not UTF-8)
C13_Witness ==
    /\ LoggedFor(1, "read_failed") # {}
    /\ cur.id = 1
    /\ pc = "idle"
    /\ is_file(fs, cur.src_path)
    /\ ~exists(fs, archive_dir(cur.src_path))
    /\ requests = <<>>

DisposalFailed(e) == LoggedFor(e, "mkdir_failed") \cup LoggedFor(e, "move_failed") # {}

PagesOf(e) == {i \in 1..Len(pages) : requests[pages[i].request].event = e}

\* C14: an event whose disposal failed (mkdir or move raised) has its page,
\* created once; it has one create-page call, one mkdir attempt, at most one
\* move attempt and no successful move; when its call is the last one the
\* handler has returned to the observer thread and the file is at its
\* original path with the content that was read.
C14_DisposalFailureKeepsPageAndFile ==
    \A e \in 1..Len(events) :
        DisposalFailed(e) =>
            /\ Cardinality(PagesOf(e)) = 1
            /\ Cardinality(LoggedFor(e, "create_called")) = 1
            /\ Cardinality(RequestsOf(e)) = 1
            /\ Cardinality(LoggedFor(e, "mkdir") \cup LoggedFor(e, "mkdir_failed")) = 1
            /\ Cardinality(LoggedFor(e, "move") \cup LoggedFor(e, "move_failed")) <= 1
            /\ LoggedFor(e, "move") = {}
            /\ cur.id = e =>
                  /\ pc = "idle"
                  /\ is_file(fs, cur.src_path)
                  /\ fs[cur.src_path].content = cur.content

\* archived is a file, so mkdir raised after the page was created
C14_Witness ==
    /\ cur.id = 1
    /\ LoggedFor(1, "mkdir_failed") # {}
    /\ is_file(fs, archive_dir(cur.src_path))
    /\ Len(pages) = 1
    /\ pc = "idle"
    /\ is_file(fs, cur.src_path)

TerminalOps == {"read_failed", "create_raised", "mkdir_failed", "move_failed", "move"}

FailureOps == {"read_failed", "create_raised", "mkdir_failed", "move_failed"}

Finished(e) == \E op \in TerminalOps : LoggedFor(e, op) # {}

Failed(e) == \E op \in FailureOps : LoggedFor(e, op) # {}

Pending(e) == \E i \in 1..Len(queue) : queue[i] = e

\* C15: whatever failed before, the observer thread is alive and running with
\* the watches main() scheduled, every failure has brought the handler back
\* to the thread's dispatch loop, an event waiting while the handler is idle
\* can be dispatched, every qualifying event that is neither waiting nor in
\* hand has been processed to an end, and a call starts with nothing of an
\* earlier call in its locals.
C15_FailuresDoNotStopTheWatcher ==
    /\ pc # "dead"
    /\ observer = "running"
    /\ watches = {sync_targets[i].directory : i \in DOMAIN sync_targets}
    /\ (cur.id > 0 /\ Failed(cur.id)) => pc = "idle"
    /\ (pc = "idle" /\ queue # <<>>) => may_dispatch(pc, observer)
    /\ \A e \in 1..Len(events) :
          (qualifies(events[e]) /\ ~Pending(e) /\ e # cur.id) => Finished(e)
    /\ pc = "sleep" =>
          cur = [NoCall EXCEPT !.id = cur.id, !.src_path = events[cur.id].src_path,
                               !.fs0 = cur.fs0]

\* after a file whose remote call raised, the next file, of the other
\* directory, was synced and archived
C15_Witness ==
    /\ Len(events) = 2
    /\ LoggedFor(1, "create_raised") # {}
    /\ events[1].src_path[1] # events[2].src_path[1]
    /\ LoggedFor(2, "move") # {}
    /\ cur.moved
    /\ ~exists(fs, events[2].src_path)

\* C17: a step of one event's processing is logged only when every event
\* with an earlier step has reached its end (disposal or abort), and every
\* event that was started and is not the one in hand has reached its end.
C17_OneFileAtATime ==
    /\ \A i \in 1..Len(log) : \A j \in (i + 1)..Len(log) :
          log[i].event # log[j].event =>
              \E k \in i..(j - 1) :
                  log[k].event = log[i].event /\ log[k].op \in TerminalOps
    /\ \A e \in 1..Len(events) : (Started(e) /\ e # cur.id) => Finished(e)

\* a file of the other directory is created while the first file's remote
\* call is in progress; its event waits
C17_Witness ==
    /\ cur.id = 1
    /\ pc = "creating"
    /\ queue = <<2>>
    /\ qualifies(events[2])
    /\ events[1].src_path[1] # events[2].src_path[1]

\* q is a path below the directory d
Below(d, q) == Len(q) > Len(d) /\ SubSeq(q, 1, Len(d)) = d

---------------------------------------------------------------------------
(* Claims about main() and the observer, checked under MainSpec *)

\* the directory of target t cannot be created or cannot be read
BadDirectory(t) == dirs[str_path(t.directory)] \in {"unreadable", "uncreatable"}

Fatal == sync_targets = <<>> \/ \E i \in DOMAIN sync_targets : BadDirectory(sync_targets[i])

NothingWatched ==
    /\ watches = {}
    /\ observer = "new"
    /\ events = <<>>
    /\ log = <<>>
    /\ requests = <<>>
    /\ pc = "idle"

\* C11: when a target's directory cannot be created or read, or there is no
\* target, main() never gets past validation, exits with code 1 at the first
\* such directory, and nothing is ever scheduled, started or processed; exit
\* code 1 occurs in these cases only; once a directory is scheduled or the
\* observer started, there are targets, every target's directory exists and
\* is readable and is watched; a directory main() created exists, and is
\* watched once the observer runs.
C11_WatchingOnlyAfterValidation ==
    /\ Fatal =>
          /\ NothingWatched
          /\ main.pc \in {"validate", "exited"}
          /\ main.pc = "exited" => main.exit_code = "1"
    /\ main.pc = "validate" =>
          \A j \in 1..(main.i - 1) : ~BadDirectory(sync_targets[j])
    /\ main.exit_code = "1" => (Fatal /\ NothingWatched /\ main.pc = "exited")
    /\ (watches # {} \/ observer # "new") =>
          /\ sync_targets # <<>>
          /\ \A i \in DOMAIN sync_targets :
                /\ dirs[str_path(sync_targets[i].directory)] = "ok"
                /\ sync_targets[i].directory \in watches
    /\ \A d \in main.created :
          /\ dirs[d] = "ok"
          /\ observer # "new" => \E w \in watches : str_path(w) = d

\* the directory was missing, main() created it, and a file created in it
\* has been synced and archived
C11_Witness ==
    /\ main.created = {notes}
    /\ watches = {notes}
    /\ observer = "running"
    /\ main.pc = "loop"
    /\ LoggedFor(1, "move") # {}

\* C16 (as claimed): for a file created directly in the directory of a
\* target, the note id the handler passes on and the relation of the request
\* are the target's note id, and there is no relation when the target has no
\* note id.
C16_RelationOfTheTargetDirectory ==
    \A i \in DOMAIN sync_targets :
        LET t == sync_targets[i]
            InTarget(path) == Len(path) = 2 /\ path[1] = str_path(t.directory)
        IN  /\ (pc \in {"call", "creating", "mkdir", "move"} /\ InTarget(cur.src_path)) =>
                  cur.note_id = t.note_id
            /\ \A k \in 1..Len(requests) :
                  InTarget(events[requests[k].event].src_path) =>
                      IF t.note_id # None
                      THEN /\ "Lit Notes" \in DOMAIN requests[k].properties
                           /\ requests[k].properties["Lit Notes"] =
                                 [relation |-> <<[id |-> t.note_id]>>]
                      ELSE "Lit Notes" \notin DOMAIN requests[k].properties

\* C18: main() waits in join only after it told the observer to stop; the
\* process exits with code 0 only when the observer thread has ended and the
\* handler is not inside a call; at exit every event that was started, the
\* one in flight at the interrupt among them, has reached its end, and every
\* event whose page was created has had its disposal (done or failed).
C18_InFlightFinishesBeforeExit ==
    /\ main.pc = "join" => observer \in {"stopping", "stopped"}
    /\ (main.pc = "exited" /\ main.exit_code = "0") =>
          /\ observer = "stopped"
          /\ pc = "idle"
    /\ main.pc = "exited" =>
          /\ \A e \in 1..Len(events) : Started(e) => Finished(e)
          /\ main.in_flight.id > 0 => Finished(main.in_flight.id)
          /\ \A e \in 1..Len(events) :
                LoggedFor(e, "create_returned") # {} =>
                    \E op \in {"move", "move_failed", "mkdir_failed"} : LoggedFor(e, op) # {}

\* the interrupt came between the return of the create call and the mkdir
\* of archived/; the file was archived before the process exited
C18_Witness ==
    /\ main.pc = "exited"
    /\ main.exit_code = "0"
    /\ main.in_flight = [id |-> 1, at |-> "mkdir"]
    /\ LoggedFor(1, "move") # {}
    /\ ~exists(fs, events[1].src_path)

\* C19: every creation event is for a path directly in a watched directory,
\* none for a path below archived/; an event has at most one read, one
\* create-page call, one page and one move; there are no more pages than
\* qualifying events.
C19_SubdirectoryFilesAreNotDetected ==
    /\ \A e \in 1..Len(events) :
          /\ Len(events[e].src_path) = 2
          /\ \E w \in watches : events[e].src_path[1] = str_path(w)
          /\ \A e2 \in 1..Len(events) :
                ~Below(archive_dir(events[e].src_path), events[e2].src_path)
          /\ Cardinality(ReadAttempts(e)) <= 1
          /\ Cardinality(LoggedFor(e, "create_called")) <= 1
          /\ Cardinality(PagesOf(e)) <= 1
          /\ Cardinality(LoggedFor(e, "move") \cup LoggedFor(e, "move_failed")) <= 1
    /\ Len(pages) <= Cardinality({e \in 1..Len(events) : qualifies(events[e])})

\* a.MD was synced and moved into archived/, a.md was created in archived/:
\* one page, and the only other event is the one of the archived directory
C19_Witness ==
    /\ LoggedFor(1, "move") # {}
    /\ is_file(fs, <<notes, ARCHIVED, a_MD>>)
    /\ is_file(fs, <<notes, ARCHIVED, a_md>>)
    /\ Len(events) = 2
    /\ events[2] = [is_directory |-> TRUE, src_path |-> <<notes, ARCHIVED>>]
    /\ queue = <<>>
    /\ pc = "idle"
    /\ Len(pages) = 1

---------------------------------------------------------------------------
(* Claim about the end of every event, checked under FairSpec *)

TerminalEntries(e) == {i \in 1..Len(log) : log[i].event = e /\ log[i].op \in TerminalOps}

\* event e is in exactly one place: waiting, in hand, or done with
ConsumedOnce(e) ==
    /\ Cardinality({i \in 1..Len(queue) : queue[i] = e}) <= 1
    /\ Pending(e) => ~Started(e)
    /\ Cardinality(ReadAttempts(e)) <= 1
    /\ Cardinality(TerminalEntries(e)) <= 1
    /\ \A i \in TerminalEntries(e) : \A j \in (i + 1)..Len(log) : log[j].event # e

\* what the one terminal entry of e says is what happened
OutcomeOf(e) ==
    /\ LoggedFor(e, "move") # {} =>
          /\ Cardinality(PagesOf(e)) = 1
          /\ cur.id = e => cur.moved
    /\ DisposalFailed(e) =>
          /\ Cardinality(PagesOf(e)) = 1
          /\ cur.id = e => is_file(fs, cur.src_path)
    /\ (LoggedFor(e, "read_failed") # {} \/ LoggedFor(e, "create_raised") # {}) =>
          /\ PagesOf(e) = {}
          /\ \A op \in DisposalOps : LoggedFor(e, op) = {}
          /\ (cur.id = e /\ exists(cur.fs0, cur.src_path)) =>
                (exists(fs, cur.src_path) /\ fs[cur.src_path] = cur.fs0[cur.src_path])

\* C20: an event is never in the queue twice nor waiting once started, has
\* at most one read and at most one terminal entry, after which nothing more
\* is logged for it, and the entry is one of: moved (page created, file
\* moved), disposal failed (page created, file at its path), aborted
\* (no page, no disposal, file as it was); and every qualifying event that
\* was raised, also while another file was in hand, leads to its terminal
\* entry.
C20_EveryEventEndsOnce ==
    /\ [](\A e \in 1..Len(events) : ConsumedOnce(e) /\ OutcomeOf(e))
    /\ \A e \in 1..MaxEvents :
          (Len(events) >= e /\ qualifies(events[e])) ~> Finished(e)

\* the second file was created while the first was in its remote call; both
\* have reached their end, the first aborted and the second archived
C20_Witness ==
    /\ Len(events) >= 2
    /\ qualifies(events[1])
    /\ qualifies(events[2])
    /\ LoggedFor(1, "create_raised") # {}
    /\ LoggedFor(2, "move") # {}
    /\ \E i \in LoggedFor(1, "create_raised") : \A j \in LoggedFor(2, "read") : i < j
    /\ queue = <<>>
    /\ pc = "idle"

=============================================================================
